---- MODULE Spec2Model ----
(***************************************************************************)
(* Accelerated alternating projections (AccAltProj) of src/AccAlt.ipynb:   *)
(* the thresholding operators, the incoherence trimmer and the main loop.  *)
(*                                                                         *)
(* Real numbers are exact rationals <<num, den>> in lowest terms.  The     *)
(* inputs are matrices with at most one nonzero entry in every row and     *)
(* column, on which the singular value and QR factorisations called by the *)
(* code are exact over the rationals (singular values are the magnitudes   *)
(* of the entries, singular vectors are unit coordinate vectors).          *)
(* Sequences are 1-based: the code's Sigma[0] is Sigma[1] here.            *)
(***************************************************************************)
EXTENDS Integers, Sequences, FiniteSets, TLC

VARIABLES
    pc,         \* the line of AccAltProj about to run, or how the call ended
    D, r,       \* the arguments D and r
    niter,      \* params['niter']
    trimming,   \* params['trimming']
    zeta, S, U, Sigma, V, L, out, i,    \* the locals of AccAltProj
    Q1, R1, Q2, R2,
    ret,        \* the value returned
    tx, tt,     \* a matrix and a threshold given to a thresholding operator
    tres        \* <<operator, result>> once one was applied

vars == <<pc, D, r, niter, trimming, zeta, S, U, Sigma, V, L, out, i,
          Q1, R1, Q2, R2, ret, tx, tt, tres>>

mainVars == <<pc, D, r, niter, trimming, zeta, S, U, Sigma, V, L, out, i,
              Q1, R1, Q2, R2, ret>>
thrVars == <<tx, tt, tres>>

(***************************************************************************)
(* Bounds of the model.                                                    *)
(***************************************************************************)
MaxVal == 2
MaxIter == 3
MaxAbs == 2
MaxThr == 2

\* The value of a local that has not been assigned yet.
None == << >>

(***************************************************************************)
(* Exact rational arithmetic.                                              *)
(***************************************************************************)
RECURSIVE GCD(_, _)
GCD(a, b) == IF b = 0 THEN a ELSE GCD(b, a % b)

IAbs(a) == IF a < 0 THEN -a ELSE a

Rat(n, d) ==
    LET g == GCD(IAbs(n), IAbs(d))
        s == IF d < 0 THEN -1 ELSE 1
    IN  <<(s * n) \div g, (s * d) \div g>>

Zero == <<0, 1>>
One == <<1, 1>>
RInt(k) == <<k, 1>>

RAdd(a, b) == IF a[2] = 1 /\ b[2] = 1 THEN <<a[1] + b[1], 1>>
              ELSE Rat(a[1] * b[2] + b[1] * a[2], a[2] * b[2])
RNeg(a) == <<-a[1], a[2]>>
RSub(a, b) == RAdd(a, RNeg(b))
RMul(a, b) == IF a[2] = 1 /\ b[2] = 1 THEN <<a[1] * b[1], 1>>
              ELSE Rat(a[1] * b[1], a[2] * b[2])
RDiv(a, b) == Rat(a[1] * b[2], a[2] * b[1])
RLt(a, b) == a[1] * b[2] < b[1] * a[2]
RLe(a, b) == a[1] * b[2] <= b[1] * a[2]
RAbs(a) == <<IAbs(a[1]), a[2]>>
RMax(a, b) == IF RLt(a, b) THEN b ELSE a
RSign(a) == IF a[1] > 0 THEN One ELSE IF a[1] < 0 THEN RNeg(One) ELSE Zero

RECURSIVE RPow(_, _)
RPow(a, k) == IF k = 0 THEN One ELSE RMul(a, RPow(a, k - 1))

\* A numpy boolean used as a factor: True is 1, False is 0.
RBool(b) == IF b THEN One ELSE Zero

\* np.sqrt on the squares of rationals (the only arguments it gets here).
IsSquare(n) == \E k \in 0..n : k * k = n
ISqrt(n) == CHOOSE k \in 0..n : k * k = n
RSqrt(a) == <<ISqrt(a[1]), ISqrt(a[2])>>

(***************************************************************************)
(* Dense matrices: a matrix is a sequence of rows, a row a sequence of     *)
(* rationals.                                                              *)
(***************************************************************************)
NRows(A) == Len(A)
NCols(A) == Len(A[1])

Mat(m, n, f(_, _)) == [a \in 1..m |-> [b \in 1..n |-> f(a, b)]]

ZeroMat(m, n) == [a \in 1..m |-> [b \in 1..n |-> Zero]]

Transpose(A) == [b \in 1..NCols(A) |-> [a \in 1..NRows(A) |-> A[a][b]]]

MatSub(A, B) == [a \in 1..NRows(A) |-> [b \in 1..NCols(A) |-> RSub(A[a][b], B[a][b])]]

RECURSIVE Dot(_, _, _)
Dot(x, y, k) == IF k = 0 THEN Zero ELSE RAdd(Dot(x, y, k - 1), RMul(x[k], y[k]))

MatMul(A, B) ==
    LET Bt == Transpose(B)
    IN  [a \in 1..NRows(A) |-> [b \in 1..NCols(B) |-> Dot(A[a], Bt[b], NCols(A))]]

\* np.diag of a vector
Diag(s) == [a \in 1..Len(s) |-> [b \in 1..Len(s) |-> IF a = b THEN s[a] ELSE Zero]]

\* np.hstack([A, B])
HStack(A, B) == [a \in 1..NRows(A) |-> A[a] \o B[a]]

\* np.block([[A, B], [C, E]])
Block(A, B, C, E) == HStack(A, B) \o HStack(C, E)

\* A[:, :k]
FirstCols(A, k) == [a \in 1..NRows(A) |-> SubSeq(A[a], 1, k)]

\* s[:k] of a vector (numpy clips the slice at the length)
FirstElems(s, k) == SubSeq(s, 1, IF k < Len(s) THEN k ELSE Len(s))

\* np.sum(A**2, axis=1)
RowNormSquare(A) == [a \in 1..NRows(A) |-> Dot(A[a], A[a], NCols(A))]

RECURSIVE SumSeq(_, _)
SumSeq(s, k) == IF k = 0 THEN Zero ELSE RAdd(SumSeq(s, k - 1), s[k])

\* norm(A, 'fro') ** 2
FroSquare(A) == SumSeq(RowNormSquare(A), NRows(A))

(***************************************************************************)
(* The thresholding operators.                                             *)
(***************************************************************************)
\* soft_threshold without np.sign: the magnitude alone
soft_threshold_unsigned(x, threshold) ==
    [a \in 1..NRows(x) |-> [b \in 1..NCols(x) |->
        RMax(RSub(RAbs(x[a][b]), threshold), Zero)]]

\* np.sign(x) * np.maximum(np.abs(x) - threshold, 0)
soft_threshold(x, threshold) ==
    [a \in 1..NRows(x) |-> [b \in 1..NCols(x) |->
        RMul(RSign(x[a][b]), RMax(RSub(RAbs(x[a][b]), threshold), Zero))]]

\* hard_threshold with > for >=
hard_threshold_strict(x, threshold) ==
    [a \in 1..NRows(x) |-> [b \in 1..NCols(x) |->
        RMul(x[a][b], RBool(RLt(threshold, RAbs(x[a][b]))))]]

\* x * (np.abs(x) >= threshold)
hard_threshold(x, threshold) ==
    [a \in 1..NRows(x) |-> [b \in 1..NCols(x) |->
        RMul(x[a][b], RBool(RLe(threshold, RAbs(x[a][b]))))]]

\* The argument after a thresholding done in place (x *= ...)
threshold_argument_in_place(x, threshold) ==
    [a \in 1..NRows(x) |-> [b \in 1..NCols(x) |->
        RMul(x[a][b], RBool(RLe(threshold, RAbs(x[a][b]))))]]

\* The argument array x after either call: both build their result in new
\* arrays and write nothing into x.
threshold_argument(x, threshold) == x

(***************************************************************************)
(* The factorisations of scipy the code calls, on matrices with at most    *)
(* one nonzero entry in every row and column.  A singular triplet is       *)
(* (sigma, e_p, sign * e_q) for an entry of magnitude sigma at (p, q) that *)
(* is alone in its row and column; where the factorisation is not unique   *)
(* (equal or zero singular values, zero columns) every choice of unit      *)
(* coordinate vectors is a possible result.  The sign of a singular pair   *)
(* or of a column of Q is fixed to one of its two values: the other flips  *)
(* both factors of every product the code forms.                           *)
(***************************************************************************)
InjSeqs(T, k) == {f \in [1..k -> T] : \A a, b \in 1..k : a # b => f[a] # f[b]}

\* The largest matrix dimension the factorisations meet: the 2r x 2r block
\* matrix of AccAltProj with r = 2.
MaxDim == 4

\* Injective[n][k]: the sequences of k distinct indices in 1..n
Injective == [n \in 1..MaxDim |-> [k \in 1..n |-> InjSeqs(1..n, k)]]

IsGenDiag(A) ==
    /\ \A a \in 1..NRows(A) : Cardinality({b \in 1..NCols(A) : A[a][b] # Zero}) <= 1
    /\ \A b \in 1..NCols(A) : Cardinality({a \in 1..NRows(A) : A[a][b] # Zero}) <= 1

\* (p, q) carries a singular triplet of A: A e_q = A[p][q] e_p, A^T e_p = A[p][q] e_q
IsTriplet(A, p, q) ==
    /\ \A a \in 1..NRows(A) : a # p => A[a][q] = Zero
    /\ \A b \in 1..NCols(A) : b # q => A[p][b] = Zero

VSign(x) == IF x[1] < 0 THEN RNeg(One) ELSE One

\* The factors for the triplets at (p[t], q[t]), t = 1..k: U is m x k, s has
\* k values, Vh is k x n.
Factors(A, p, q, k) ==
    [U  |-> [a \in 1..NRows(A) |-> [t \in 1..k |-> RBool(a = p[t])]],
     s  |-> [t \in 1..k |-> RAbs(A[p[t]][q[t]])],
     Vh |-> [t \in 1..k |-> [b \in 1..NCols(A) |->
                IF b = q[t] THEN VSign(A[p[t]][q[t]]) ELSE Zero]]]

Triplets(A, k) ==
    IF IsGenDiag(A)
    THEN {pq \in Injective[NRows(A)][k] \X Injective[NCols(A)][k] :
            \A t \in 1..k : IsTriplet(A, pq[1][t], pq[2][t])}
    ELSE {}

\* The k chosen triplets are the k largest: no other entry is larger.
AreLargest(A, p, q, k) ==
    \A a \in 1..NRows(A), b \in 1..NCols(A) :
        (\A t \in 1..k : ~(a = p[t] /\ b = q[t]))
            => \A t \in 1..k : RLe(RAbs(A[a][b]), RAbs(A[p[t]][q[t]]))

Min(a, b) == IF a < b THEN a ELSE b

\* svds(A, k) raises ValueError unless 1 <= k < min(A.shape)
svds_rejects(A, k) == k <= 0 \/ k >= Min(NRows(A), NCols(A))

\* svds(A, k): the k largest singular triplets, singular values ascending
svds(A, k) ==
    {Factors(A, pq[1], pq[2], k) : pq \in
        {x \in Triplets(A, k) :
            /\ AreLargest(A, x[1], x[2], k)
            /\ \A t \in 1..(k - 1) :
                RLe(RAbs(A[x[1][t]][x[2][t]]), RAbs(A[x[1][t + 1]][x[2][t + 1]]))}}

\* A dense SVD that, like a truncated one, hands back only the leading half
\* of the singular values (the factors U and Vh are complete).
svd_leading_values(A) ==
    {[U  |-> f.U,
      s  |-> FirstElems(f.s, (NRows(A) + 1) \div 2),
      Vh |-> f.Vh] : f \in
        {Factors(A, pq[1], pq[2], NRows(A)) : pq \in
            {x \in Triplets(A, NRows(A)) :
                \A t \in 1..(NRows(A) - 1) :
                    RLe(RAbs(A[x[1][t + 1]][x[2][t + 1]]), RAbs(A[x[1][t]][x[2][t]]))}}}

\* svd(A, full_matrices=False) of a square A: (U, s, Vh), singular values
\* descending
svd(A) ==
    {Factors(A, pq[1], pq[2], NRows(A)) : pq \in
        {x \in Triplets(A, NRows(A)) :
            \A t \in 1..(NRows(A) - 1) :
                RLe(RAbs(A[x[1][t + 1]][x[2][t + 1]]), RAbs(A[x[1][t]][x[2][t]]))}}

\* qr(A, mode='economic') of an m x k matrix A, m >= k, by Householder
\* reflections (LAPACK geqrf).  On a column with one nonzero entry the
\* reflection of step t exchanges coordinate t with the coordinate of that
\* entry when it lies below t, and is the identity when the column is zero
\* from t on.  rows[c] is the coordinate that the reflections so far moved
\* to position c.
Swap(f, a, b) == [f EXCEPT ![a] = f[b], ![b] = f[a]]

RECURSIVE Householder(_, _, _)
Householder(A, t, rows) ==
    IF t > NCols(A) THEN rows
    ELSE LET below == {c \in t..NRows(A) : A[rows[c]][t] # Zero}
         IN  IF below = {} THEN Householder(A, t + 1, rows)
             ELSE Householder(A, t + 1, Swap(rows, t, CHOOSE c \in below : TRUE))

\* Every column of A has at most one nonzero entry
IsAxisAligned(A) ==
    \A b \in 1..NCols(A) : Cardinality({a \in 1..NRows(A) : A[a][b] # Zero}) <= 1

\* Q has the orthonormal columns e_c[1], ..., e_c[k]; R = Q^T A.
qr(A) ==
    LET c == Householder(A, 1, [a \in 1..NRows(A) |-> a])
    IN  [Q |-> [a \in 1..NRows(A) |-> [t \in 1..NCols(A) |-> RBool(a = c[t])]],
         R |-> [t \in 1..NCols(A) |-> [b \in 1..NCols(A) |-> A[c[t]][b]]]]

(***************************************************************************)
(* trim                                                                    *)
(***************************************************************************)
\* The rows of U after
\*   big_rows = row_norm_square > mu * r / m
\*   U[big_rows, :] = (U[big_rows, :].T * ((mu * r / m) / np.sqrt(row_norm_square[big_rows]))).T
\* which writes into the caller's array.
trim_rescale(X, mu_X) ==
    LET m == NRows(X)
        rr == NCols(X)
        row_norm_square == RowNormSquare(X)
        bound == RDiv(RMul(mu_X, RInt(rr)), RInt(m))
    IN  [a \in 1..m |->
            IF RLt(bound, row_norm_square[a])
            THEN [b \in 1..rr |->
                    RMul(X[a][b], RDiv(bound, RSqrt(row_norm_square[a])))]
            ELSE X[a]]

\* The rest of trim, on the rescaled U and V: the pairs (U_out, V_out).
\* svd returns Vh, which the code binds to V_temp and uses as it is.
trim_factor(Ur, Sig, Vr) ==
    LET q1 == qr(Ur)
        q2 == qr(Vr)
    IN  {<<MatMul(q1.Q, f.U), MatMul(q2.Q, f.Vh)>> :
            f \in svd(MatMul(MatMul(q1.R, Sig), Transpose(q2.R)))}

(***************************************************************************)
(* AccAltProj                                                              *)
(***************************************************************************)
\* The parameters the caller passes in params
beta == One
beta_init == RMul(RInt(4), beta)
gamma == Rat(1, 2)
eps == Rat(1, 10)
mu == <<RInt(1), RInt(100)>>

\* A float division by zero: 0/0 is nan (num = den = 0), x/0 is inf.  No
\* comparison with nan is true; RLt and RLe agree with that.
FDiv(a, b) == IF b[1] = 0 THEN <<RSign(a)[1], 0>> ELSE RDiv(a, b)
NaN == <<0, 0>>

\* A slot of np.empty(niter) that nothing was written to yet
Unwritten == <<0, -1>>

\* out[k] = x written one slot too low (never below slot 0)
store_below(o, k, x) == [o EXCEPT ![IF k = 0 THEN 1 ELSE k] = x]

\* out[k] = x, k counted from 0 as in the code
store(o, k, x) == [o EXCEPT ![k + 1] = x]

\* (norm(D - L - S, 'fro') / norm(D, 'fro')) ** 2.  The entries of out are
\* kept squared (the norms are square roots); x < eps is x**2 < eps**2 for
\* the non-negative x and eps compared.
residual(Dm, Lm, Sm) == FDiv(FroSquare(MatSub(MatSub(Dm, Lm), Sm)), FroSquare(Dm))

below_eps(x) == RLt(x, RMul(eps, eps))

Shapes == {<<1, 2>>, <<2, 2>>, <<3, 3>>}

\* Frames are grey levels (non-negative); an input has at most one nonzero
\* entry in every row and column.
Inputs ==
    UNION {{A \in [1..sh[1] -> [1..sh[2] -> {RInt(v) : v \in 0..MaxVal}]] : IsGenDiag(A)} :
            sh \in Shapes}

\* r below, inside and above the accepted range of every shape
Ranks == 0..2

ThrIdle ==
    /\ tx = None
    /\ tt = None
    /\ tres = None

Init ==
    /\ pc = "l138"
    /\ D \in Inputs
    /\ r \in Ranks
    /\ niter \in 0..MaxIter
    /\ trimming \in BOOLEAN
    /\ zeta = None /\ S = None /\ U = None /\ Sigma = None /\ V = None
    /\ L = None /\ out = None /\ i = -1
    /\ Q1 = None /\ R1 = None /\ Q2 = None /\ R2 = None
    /\ ret = None
    /\ ThrIdle

IsZeroMat(A) == \A a \in 1..NRows(A), b \in 1..NCols(A) : A[a][b] = Zero

\* zeta = beta_init * svds(D, 1)[1][0]
Line138 ==
    /\ pc = "l138"
    /\ \/ /\ svds_rejects(D, 1)
          /\ pc' = "ValueError"
          /\ zeta' = zeta
       \/ /\ ~svds_rejects(D, 1)
          /\ \E f \in svds(D, 1) :
                zeta' = RMul(beta_init, f.s[1])
          /\ pc' = "l140"
    /\ UNCHANGED <<D, r, niter, trimming, S, U, Sigma, V, L, out, i,
                   Q1, R1, Q2, R2, ret, thrVars>>

\* S = hard_threshold(D, zeta)
Line140 ==
    /\ pc = "l140"
    /\ S' = hard_threshold(D, zeta)
    /\ D' = threshold_argument(D, zeta)
    /\ pc' = "l141"
    /\ UNCHANGED <<r, niter, trimming, zeta, U, Sigma, V, L, out, i,
                   Q1, R1, Q2, R2, ret, thrVars>>

\* U, Sigma, Vt = svds(D - S, r); V = Vt.T; L = U @ np.diag(Sigma) @ Vt
Line141 ==
    /\ pc = "l141"
    /\ \/ /\ svds_rejects(MatSub(D, S), r)
          /\ pc' = "ValueError"
          /\ UNCHANGED <<U, Sigma, V, L>>
       \/ /\ ~svds_rejects(MatSub(D, S), r)
          /\ \E f \in svds(MatSub(D, S), r) :
                /\ U' = f.U
                /\ Sigma' = f.s
                /\ V' = Transpose(f.Vh)
                /\ L' = MatMul(MatMul(f.U, Diag(f.s)), f.Vh)
          /\ pc' = "l145"
    /\ UNCHANGED <<D, r, niter, trimming, zeta, S, out, i,
                   Q1, R1, Q2, R2, ret, thrVars>>

\* zeta = beta * Sigma[0]; S = hard_threshold(D - L, zeta)
Line145 ==
    /\ pc = "l145"
    /\ zeta' = RMul(beta, Sigma[1])
    /\ S' = hard_threshold(MatSub(D, L), zeta')
    /\ pc' = "l148"
    /\ UNCHANGED <<D, r, niter, trimming, U, Sigma, V, L, out, i,
                   Q1, R1, Q2, R2, ret, thrVars>>

\* out = np.empty(niter); out[0] = norm(D - L - S, 'fro') / norm(D, 'fro')
\* out has niter slots: the write raises IndexError when niter is 0.
Line148 ==
    /\ pc = "l148"
    /\ IF niter = 0
       THEN /\ out' = << >>
            /\ pc' = "IndexError"
       ELSE /\ out' = store([k \in 1..niter |-> Unwritten], 0, residual(D, L, S))
            /\ pc' = "l151"
    /\ UNCHANGED <<D, r, niter, trimming, zeta, S, U, Sigma, V, L, i,
                   Q1, R1, Q2, R2, ret, thrVars>>

\* for i in range(niter): the next i, or the end of the loop.  i is -1
\* before the first iteration.
Line151 ==
    /\ pc = "l151"
    /\ IF i + 1 < niter
       THEN /\ i' = i + 1
            /\ pc' = IF trimming THEN "l153" ELSE "l155"
       ELSE /\ i' = i
            /\ pc' = "l178"
    /\ UNCHANGED <<D, r, niter, trimming, zeta, S, U, Sigma, V, L, out,
                   Q1, R1, Q2, R2, ret, thrVars>>

\* The factorisation or square root the line at pc is about to take is exact
\* over the rationals.  It always is on factors with orthonormal columns;
\* after a rank-deficient step the code's factors can lose orthonormality.
SquareNorms(X) ==
    \A a \in 1..NRows(X) :
        IsSquare(RowNormSquare(X)[a][1]) /\ IsSquare(RowNormSquare(X)[a][2])

residual_rows(Zm, Um, Vm) ==
    MatSub(MatMul(Transpose(Zm), Um),
           MatMul(MatMul(Vm, Transpose(MatMul(Zm, Vm))), Um))

residual_cols(Zm, Um, Vm) ==
    MatSub(MatMul(Zm, Vm), MatMul(MatMul(Um, Transpose(Um)), MatMul(Zm, Vm)))

\* M = np.block([[U.T @ Z @ V, R1.T], [R2, np.zeros_like(R2)]])
block_M(Um, Zm, Vm, R1m, R2m) ==
    Block(MatMul(MatMul(Transpose(Um), Zm), Vm), Transpose(R1m),
          R2m, ZeroMat(NRows(R2m), NCols(R2m)))

Exact ==
    CASE pc = "l153" -> SquareNorms(U) /\ SquareNorms(V)
      [] pc = "l78"  -> /\ IsAxisAligned(U) /\ IsAxisAligned(V)
                        /\ trim_factor(U, Diag(FirstElems(Sigma, r)), V) # {}
      [] pc = "l155" -> /\ IsAxisAligned(residual_rows(MatSub(D, S), U, V))
                        /\ IsAxisAligned(residual_cols(MatSub(D, S), U, V))
      [] pc = "l159" -> svd(block_M(U, MatSub(D, S), V, R1, R2)) # {}
      [] OTHER -> TRUE

\* The run leaves the arithmetic of the model; it is not followed further.
Inexact ==
    /\ ~Exact
    /\ pc' = "inexact"
    /\ UNCHANGED <<D, r, niter, trimming, zeta, S, U, Sigma, V, L, out, i,
                   Q1, R1, Q2, R2, ret, thrVars>>

\* trim(U, np.diag(Sigma[:r]), V, mu[0], mu[-1]), its lines 68-76: the rows
\* of the arrays U and V are rescaled in place.
Line153 ==
    /\ pc = "l153"
    /\ Exact
    /\ U' = trim_rescale(U, mu[1])
    /\ V' = trim_rescale(V, mu[Len(mu)])
    /\ pc' = "l78"
    /\ UNCHANGED <<D, r, niter, trimming, zeta, S, Sigma, L, out, i,
                   Q1, R1, Q2, R2, ret, thrVars>>

\* trim, its lines 78-85, and U, V = its result
Line78 ==
    /\ pc = "l78"
    /\ Exact
    /\ \E uv \in trim_factor(U, Diag(FirstElems(Sigma, r)), V) :
            /\ U' = uv[1]
            /\ V' = uv[2]
    /\ pc' = "l155"
    /\ UNCHANGED <<D, r, niter, trimming, zeta, S, Sigma, L, out, i,
                   Q1, R1, Q2, R2, ret, thrVars>>

\* Z = D - S
\* Q1, R1 = qr(Z.T @ U - V @ (Z @ V).T @ U); Q2, R2 = qr(Z @ V - U @ U.T @ Z @ V)
Line155 ==
    /\ pc = "l155"
    /\ Exact
    /\ LET Z == MatSub(D, S)
           f1 == qr(residual_rows(Z, U, V))
           f2 == qr(residual_cols(Z, U, V))
       IN  /\ Q1' = f1.Q
           /\ R1' = f1.R
           /\ Q2' = f2.Q
           /\ R2' = f2.R
    /\ pc' = "l159"
    /\ UNCHANGED <<D, r, niter, trimming, zeta, S, U, Sigma, V, L, out, i,
                   ret, thrVars>>

\* U_of_M, Sigma, V_of_M = svd(M); U = hstack([U, Q2]) @ U_of_M[:, :r];
\* V = hstack([V, Q1]) @ V_of_M[:, :r]; L = U @ np.diag(Sigma[:r]) @ V.T
\* (V_of_M is the third value svd returns, Vh.)
Line159 ==
    /\ pc = "l159"
    /\ \E f \in {<<g.s, FirstCols(g.U, r), FirstCols(g.Vh, r)>> :
                    g \in svd(block_M(U, MatSub(D, S), V, R1, R2))} :
            /\ Sigma' = f[1]
            /\ U' = MatMul(HStack(U, Q2), f[2])
            /\ V' = MatMul(HStack(V, Q1), f[3])
            /\ L' = MatMul(MatMul(U', Diag(FirstElems(f[1], r))), Transpose(V'))
    /\ pc' = "l168"
    /\ UNCHANGED <<D, r, niter, trimming, zeta, S, out, i,
                   Q1, R1, Q2, R2, ret, thrVars>>

\* zeta = beta * (Sigma[r] + (gamma**i) * Sigma[0]); S = hard_threshold(D - L, zeta)
Line168 ==
    /\ pc = "l168"
    /\ IF r + 1 > Len(Sigma)
       THEN /\ pc' = "IndexError"
            /\ UNCHANGED <<zeta, S>>
       ELSE /\ zeta' = RMul(beta, RAdd(Sigma[r + 1], RMul(RPow(gamma, i), Sigma[1])))
            /\ S' = hard_threshold(MatSub(D, L), zeta')
            /\ pc' = "l171"
    /\ UNCHANGED <<D, r, niter, trimming, U, Sigma, V, L, out, i,
                   Q1, R1, Q2, R2, ret, thrVars>>

\* out[i+1] = norm(D - L - S, 'fro') / norm(D, 'fro')
\* out has niter slots, 0 .. niter-1: the write raises IndexError when
\* i + 1 = niter.
Line171 ==
    /\ pc = "l171"
    /\ IF i + 1 >= Len(out)
       THEN /\ pc' = "IndexError"
            /\ out' = out
       ELSE /\ out' = store(out, i + 1, residual(D, L, S))
            /\ pc' = "l175"
    /\ UNCHANGED <<D, r, niter, trimming, zeta, S, U, Sigma, V, L, i,
                   Q1, R1, Q2, R2, ret, thrVars>>

\* if out[i+1] < eps: break
Line175 ==
    /\ pc = "l175"
    /\ pc' = IF below_eps(out[i + 2]) THEN "l178" ELSE "l151"
    /\ UNCHANGED <<D, r, niter, trimming, zeta, S, U, Sigma, V, L, out, i,
                   Q1, R1, Q2, R2, ret, thrVars>>

\* return L, S
Line178 ==
    /\ pc = "l178"
    /\ ret' = <<L, S>>
    /\ pc' = "returned"
    /\ UNCHANGED <<D, r, niter, trimming, zeta, S, U, Sigma, V, L, out, i,
                   Q1, R1, Q2, R2, thrVars>>

Next ==
    \/ Line138 \/ Line140 \/ Line141 \/ Line145 \/ Line148 \/ Line151
    \/ Line153 \/ Line78 \/ Line155 \/ Line159 \/ Line168 \/ Line171
    \/ Line175 \/ Line178 \/ Inexact

Spec == Init /\ [][Next]_vars

(***************************************************************************)
(* The thresholding operators on their own: one operator is applied to a   *)
(* matrix tx and a threshold tt >= 0.                                      *)
(***************************************************************************)
ThrValues == {RInt(v) : v \in (-MaxAbs)..MaxAbs}
ThrMatrices == [1..1 -> [1..2 -> ThrValues]]
Thresholds == {Rat(k, 2) : k \in 0..(2 * MaxThr)}

MainIdle ==
    /\ pc = "thresholding"
    /\ D = None /\ r = 0 /\ niter = 0 /\ trimming = FALSE
    /\ zeta = None /\ S = None /\ U = None /\ Sigma = None /\ V = None
    /\ L = None /\ out = None /\ i = -1
    /\ Q1 = None /\ R1 = None /\ Q2 = None /\ R2 = None
    /\ ret = None

InitThr ==
    /\ MainIdle
    /\ tx \in ThrMatrices
    /\ tt \in Thresholds
    /\ tres = None

ApplyHard ==
    /\ pc = "thresholding"
    /\ tres = None
    /\ tres' = <<"hard", hard_threshold(tx, tt)>>
    /\ tx' = threshold_argument(tx, tt)
    /\ UNCHANGED <<mainVars, tt>>

ApplySoft ==
    /\ pc = "thresholding"
    /\ tres = None
    /\ tres' = <<"soft", soft_threshold(tx, tt)>>
    /\ tx' = threshold_argument(tx, tt)
    /\ UNCHANGED <<mainVars, tt>>

NextThr == ApplyHard \/ ApplySoft

SpecThr == InitThr /\ [][NextThr]_vars

Applied(op) == Len(tres) = 2 /\ tres[1] = op

Entries(A) == {<<a, b>> : a \in 1..NRows(A), b \in 1..NCols(A)}

(***************************************************************************)
(* C5.  hard_threshold(X, 0) = X; every entry of hard_threshold(X, t) is 0 *)
(* or the entry x of X, and it is 0 exactly when |x| < t.                  *)
(* The statement as claimed: it fails on an entry x = 0 with t = 0, which  *)
(* is 0 in the result although |x| < t is false.                           *)
(***************************************************************************)
C5_AsClaimed ==
    Applied("hard") =>
        /\ tt = Zero => tres[2] = tx
        /\ \A e \in Entries(tx) :
            LET x == tx[e[1]][e[2]]
                y == tres[2][e[1]][e[2]]
            IN  /\ y = Zero \/ y = x
                /\ y = Zero <=> RLt(RAbs(x), tt)

(***************************************************************************)
(* C5, amended.  hard_threshold(X, 0) = X; every entry of the result is 0  *)
(* or the entry x of X, and it is 0 exactly when |x| < t or x is 0 itself  *)
(* (a nonzero entry with |x| = t is kept).                                 *)
(***************************************************************************)
C5_HardThreshold ==
    Applied("hard") =>
        /\ tt = Zero => tres[2] = tx
        /\ \A e \in Entries(tx) :
            LET x == tx[e[1]][e[2]]
                y == tres[2][e[1]][e[2]]
            IN  /\ y = Zero \/ y = x
                /\ y = Zero <=> (RLt(RAbs(x), tt) \/ x = Zero)

\* An entry at the threshold is kept beside an entry below it that is zeroed.
C5_Witness ==
    /\ Applied("hard")
    /\ tt # Zero
    /\ RAbs(tx[1][1]) = tt /\ tres[2][1][1] = tx[1][1]
    /\ tx[1][2] # Zero /\ RLt(RAbs(tx[1][2]), tt) /\ tres[2][1][2] = Zero

(***************************************************************************)
(* C6.  Every entry of soft_threshold(X, t), t >= 0, is sign(x) times      *)
(* max(|x| - t, 0): x - t above t, x + t below -t and 0 in between; where  *)
(* it is nonzero it has the sign of x, and its magnitude is at most |x|.   *)
(***************************************************************************)
C6_SoftThreshold ==
    Applied("soft") =>
        \A e \in Entries(tx) :
            LET x == tx[e[1]][e[2]]
                y == tres[2][e[1]][e[2]]
            IN  /\ y = IF RLt(tt, x) THEN RSub(x, tt)
                       ELSE IF RLt(x, RNeg(tt)) THEN RAdd(x, tt)
                       ELSE Zero
                /\ y # Zero => (y[1] > 0 <=> x[1] > 0)
                /\ RLe(RAbs(y), RAbs(x))

\* A negative entry is shrunk towards 0 beside an entry that is zeroed.
C6_Witness ==
    /\ Applied("soft")
    /\ tt # Zero
    /\ tx[1][1][1] < 0 /\ tres[2][1][1][1] < 0 /\ tres[2][1][1] # tx[1][1]
    /\ tx[1][2] # Zero /\ tres[2][1][2] = Zero

(***************************************************************************)
(* Claims about AccAltProj.                                                *)
(***************************************************************************)
ValidRank == 1 <= r /\ r <= Min(NRows(D), NCols(D)) - 1

\* out[0 .. k] are written
WrittenUpTo(k) == \A c \in 1..Len(out) : c <= k + 1 => out[c] # Unwritten

\* No residual recorded so far, nor the one of the iteration being recorded,
\* is below eps.
NeverBelow ==
    /\ \A c \in 1..Len(out) : out[c] # Unwritten => ~below_eps(out[c])
    /\ pc \in {"l171", "IndexError"} /\ i >= 0 => ~below_eps(residual(D, L, S))

(***************************************************************************)
(* C1.  With niter >= 1 and no residual below eps, the call runs exactly   *)
(* niter iterations and returns the (L, S) of the last one; running out of *)
(* iterations never raises.                                                *)
(***************************************************************************)
C1_ExhaustionReturns ==
    (niter >= 1 /\ NeverBelow) =>
        /\ pc # "IndexError"
        /\ pc = "returned" => (i = niter - 1 /\ ret = <<L, S>>)

(***************************************************************************)
(* C2.  An r <= 0 or r >= min(m, n) is rejected at entry, before zeta, S   *)
(* or any factorisation is computed; an r in 1 .. min(m, n) - 1 is never   *)
(* rejected.                                                               *)
(***************************************************************************)
C2_RejectedAtEntry ==
    /\ ~ValidRank => (pc \in {"l138", "ValueError"} /\ zeta = None /\ S = None)
    /\ ValidRank => pc # "ValueError"

(***************************************************************************)
(* C3.  For D = 0 (and an accepted r) the residual out[0] is below eps, no *)
(* iteration of the loop runs, nothing is raised, and the L and S returned *)
(* are zero.                                                               *)
(***************************************************************************)
C3_ZeroInput ==
    (IsZeroMat(D) /\ ValidRank) =>
        /\ i = -1
        /\ pc # "IndexError"
        /\ Len(out) >= 1 => below_eps(out[1])
        /\ pc = "returned" => (IsZeroMat(ret[1]) /\ IsZeroMat(ret[2]))

\* The iterations whose residual has been recorded
Recorded == IF pc \in {"l153", "l78", "l155", "l159", "l168", "l171"} THEN i ELSE i + 1

Allocated == pc \in {"l151", "l153", "l78", "l155", "l159", "l168", "l171",
                     "l175", "l178", "returned"}

C4_TraceState ==
    /\ pc = "returned" => ret = <<L, S>>
    /\ Allocated =>
        /\ Len(out) = niter
        /\ \A c \in 1..Len(out) : out[c] # Unwritten <=> c <= Recorded + 1
    /\ pc = "l151" /\ i = -1 => out[1] = residual(D, L, S)
    /\ pc = "l175" => out[i + 2] = residual(D, L, S)

RowBound(X, mu_X) == RDiv(RMul(mu_X, RInt(NCols(X))), RInt(NRows(X)))

RescaledToBound(X, Xn, mu_X) ==
    \A a \in 1..NRows(X) :
        IF RLt(RowBound(X, mu_X), RowNormSquare(X)[a])
        THEN RowNormSquare(Xn)[a] = RowBound(X, mu_X)
        ELSE Xn[a] = X[a]

C7_RowsRescaledToBound ==
    [][pc = "l153" /\ pc' = "l78" =>
            /\ RescaledToBound(U, U', mu[1])
            /\ RescaledToBound(V, V', mu[Len(mu)])]_vars

(***************************************************************************)
(* C8.  No step of the call changes the caller's D, with trimming or       *)
(* without, although trim rescales the rows of U and V in place.           *)
(***************************************************************************)
C8_InputNotMutated == [][D' = D]_vars

\* A call with trimming has run an iteration, and the trimmer did change U.
C8_Witness ==
    /\ pc = "l78"
    /\ trimming
    /\ i = 1
    /\ \E a \in 1..NRows(U) : RowNormSquare(U)[a] \notin {Zero, One}
    /\ ~IsZeroMat(D)

AfterThreshold == pc \in {"l148", "l151", "l171", "l175", "l178", "returned"}

(***************************************************************************)
(* C9.  After initialisation and at the end of every iteration, zeta is    *)
(* the threshold of the current factorisation and S is D - L thresholded   *)
(* at it: an entry of S is the entry of D - L when its magnitude reaches   *)
(* zeta and 0 otherwise, so each entry of D - L - S is 0 or below zeta in  *)
(* magnitude.                                                              *)
(***************************************************************************)
C9_SparseIsThresholdedResidual ==
    AfterThreshold =>
        /\ zeta = IF i = -1 THEN RMul(beta, Sigma[1])
                  ELSE RMul(beta, RAdd(Sigma[r + 1], RMul(RPow(gamma, i), Sigma[1])))
        /\ \A e \in Entries(D) :
            LET x == RSub(D[e[1]][e[2]], L[e[1]][e[2]])
                y == S[e[1]][e[2]]
            IN  /\ y = IF RLe(zeta, RAbs(x)) THEN x ELSE Zero
                /\ RSub(x, y) = Zero \/ RLt(RAbs(RSub(x, y)), zeta)

\* At the end of an iteration an entry of D - L equal to zeta in magnitude is
\* in S while a smaller nonzero one is left in the residual.
C9_Witness ==
    /\ pc = "l175"
    /\ i >= 0
    /\ \E e \in Entries(D) :
        /\ RSub(D[e[1]][e[2]], L[e[1]][e[2]]) # Zero
        /\ RAbs(RSub(D[e[1]][e[2]], L[e[1]][e[2]])) = zeta
        /\ S[e[1]][e[2]] = RSub(D[e[1]][e[2]], L[e[1]][e[2]])
    /\ \E e \in Entries(D) :
        /\ RSub(D[e[1]][e[2]], L[e[1]][e[2]]) # Zero
        /\ S[e[1]][e[2]] = Zero

(***************************************************************************)
(* C10.  The loop stops at the first iteration whose residual is below     *)
(* eps and the call returns the (L, S) of that iteration: such an          *)
(* iteration is never followed by another one and never ends in an         *)
(* exception; an iteration whose residual is not below eps is followed by  *)
(* the next one while fewer than niter have run.                           *)
(***************************************************************************)
C10_StopsAtFirstBelow ==
    /\ pc \in {"l171", "IndexError"} /\ i >= 0 /\ below_eps(residual(D, L, S))
            => pc # "IndexError"
    /\ pc \in {"l153", "l78", "l155", "l159", "l168", "l171"}
            => \A c \in 2..(i + 1) : ~below_eps(out[c])
    /\ pc \in {"l178", "returned"} /\ i >= 0 /\ i + 2 <= Len(out) /\ ~below_eps(out[i + 2])
            => i + 1 = niter
    /\ pc = "returned" => ret = <<L, S>>

(***************************************************************************)
(* C11.  For every accepted r the threshold recomputed at the end of       *)
(* initialisation is beta times the largest of the r singular values of    *)
(* the truncated SVD of D - S: the value read at index 0 of Sigma is the   *)
(* maximum of Sigma.                                                       *)
(***************************************************************************)
C11_ThresholdFromLargest ==
    pc = "l148" =>
        /\ \A t \in 1..Len(Sigma) : RLe(Sigma[t], Sigma[1])
        /\ \A t \in 1..Len(Sigma) : RLe(RMul(beta, Sigma[t]), zeta)

\* The block matrix the iteration at line 159 is about to factor
M_assembled == block_M(U, MatSub(D, S), V, R1, R2)

(***************************************************************************)
(* C12.  For every accepted r, in every iteration the block matrix M is    *)
(* 2r x 2r and its SVD yields 2r singular values, so Sigma[r] exists: the  *)
(* threshold update of line 168 never raises and sets zeta to              *)
(* beta * (Sigma[r] + gamma^i * Sigma[0]).                                 *)
(***************************************************************************)
C12_BlockState ==
    ValidRank =>
        /\ pc = "l159" /\ Exact =>
                /\ NRows(M_assembled) = 2 * r
                /\ \A a \in 1..(2 * r) : Len(M_assembled[a]) = 2 * r
        /\ pc \in {"l168", "l171"} => Len(Sigma) = 2 * r
        /\ pc = "l171" =>
                zeta = RMul(beta, RAdd(Sigma[r + 1], RMul(RPow(gamma, i), Sigma[1])))

C12_SigmaAtRankExists ==
    /\ []C12_BlockState
    /\ [][pc = "l168" => pc' = "l171"]_vars

\* In a second iteration with r = 2 the 4 x 4 block matrix has been factored
\* and the threshold updated from Sigma[2] and Sigma[0].
C12_Witness ==
    /\ pc = "l171"
    /\ r = 2
    /\ i = 1
    /\ Len(Sigma) = 4
    /\ Sigma[1] # Zero
    /\ zeta = RMul(beta, RAdd(Sigma[r + 1], RMul(RPow(gamma, i), Sigma[1])))

====
